---- MODULE Spec2Model ----
(***************************************************************************)
(* Voxel3D: the scene model (v3d/scene_model.py), the batched renderer     *)
(* with picking and selection (v3d/renderer.py), the ZMQ subscriber        *)
(* thread (v3d/zmq_sub.py) and the main window that wires them (v3d/ui.py).*)
(*                                                                         *)
(* Conventions                                                             *)
(*  - A Python dict is a TLA+ record; d.get(k, default) is Get(d,k,default)*)
(*    so a missing key is a key outside DOMAIN d.                          *)
(*  - Python list indices are 0-based and are kept 0-based in selected_ids *)
(*    and in point ids; the arrays are TLA+ sequences, entry i at i + 1.   *)
(*  - Colour channels (floats in the document) are counted in halves:      *)
(*    2 is 1.0, 1 is 0.5, 4 is 2.0, -2 is -1.0.                            *)
(*  - A glyph scale (a Python float, 64 bit) is counted in units of 0.005. *)
(*    The vtkFloatArray stores 32 bit floats: ToFloat32 rounds to the      *)
(*    values that array can hold, here the multiples of 25 units.          *)
(*  - World coordinates are integers; one world unit projects to 10 px.    *)
(***************************************************************************)
EXTENDS Integers, Sequences, FiniteSets, TLC

(***************************************************************************)
(* Bounds of the model.                                                    *)
(***************************************************************************)
MaxPts == 2
MaxSegs == 1
MaxSubs == 2
MaxMsgs == 2

\* the most segments a document of LineSpec holds
MaxLineSegs == 4

VARIABLES
    \* SceneModel
    points, segments,
    \* SceneRenderer: point batch, originals, selection, line batch
    point_points, point_scales, point_colors,
    orig_scales, orig_colors,
    selected_ids,
    line_points, lines_cells, line_colors,
    \* MainWindow
    status, sub,
    \* ZMQSubscriber objects (one entry per object ever constructed)
    subs,
    \* the UI thread's queue of posted signal deliveries
    events,
    \* number of payloads the publisher has delivered so far
    received,
    \* the last operation of the UI context and the selection before it
    last

modelVars == <<points, segments>>
pointVars == <<point_points, point_scales, point_colors, orig_scales, orig_colors>>
lineVars == <<line_points, lines_cells, line_colors>>
renVars == <<pointVars, lineVars, selected_ids>>
subVars == <<sub, subs, events, received>>
vars == <<modelVars, renVars, status, subVars, last>>

(***************************************************************************)
(* Python helpers.                                                         *)
(***************************************************************************)
Get(d, k, default) == IF k \in DOMAIN d THEN d[k] ELSE default

Range(s) == {s[i] : i \in DOMAIN s}

Min(a, b) == IF a < b THEN a ELSE b

Max(a, b) == IF a > b THEN a ELSE b

\* list.remove(x): drops the first occurrence of x
RECURSIVE ListRemove(_, _)
ListRemove(s, x) ==
    IF s = <<>> THEN <<>>
    ELSE IF Head(s) = x THEN Tail(s)
    ELSE <<Head(s)>> \o ListRemove(Tail(s), x)

(***************************************************************************)
(* Scene documents: the points and segments a file or a message can hold.  *)
(***************************************************************************)
\* a point with only a position: size and colour take the defaults (size 6:
\* the scale 0.3 is no 32 bit float)
PointBare == [x |-> 0]
\* a point whose colour has channels outside [0,1], clamped to the highlight
\* colour, and whose scale 0.25 is a 32 bit float
PointRed == [x |-> 3, y |-> 0, z |-> 0, size |-> 5, color |-> <<4, 0, -2, 2>>]

PointVals == {PointBare, PointRed}

SegFull == [start |-> <<0, 0, 0>>, end |-> <<3, 0, 0>>, color |-> <<0, 1, 2, 2>>, width |-> 2]
\* a segment without an end
SegNoEnd == [start |-> <<0, 0, 0>>, color |-> <<0, 2, 0, 2>>]

\* a segment without a start
SegNoStart == [end |-> <<3, 0, 0>>, width |-> 2]

SegVals == {SegFull, SegNoEnd}

SeqsUpTo(S, n) == UNION {[1..k -> S] : k \in 0..n}

PointSeqs == SeqsUpTo(PointVals, MaxPts)

SegSeqs == SeqsUpTo(SegVals, MaxSegs)

\* documents: every point sequence without segments, every segment sequence
\* over at most one point, and a document without the points field
Docs ==
    {[points |-> ps] : ps \in PointSeqs}
    \cup {[points |-> ps, segments |-> ss] : ps \in SeqsUpTo(PointVals, 1), ss \in SegSeqs}
    \cup {[segments |-> <<SegFull>>]}

\* Python's None where a list is expected: the value json.load gives for a
\* JSON null. It is kept apart from every list of points or segments.
None == <<[none |-> TRUE]>>

\* an entry of the points list that is no JSON object but the number 5
PointScalar == [scalar |-> 5]

\* p is a dict, so p.get exists
IsObject(p) == "scalar" \notin DOMAIN p

\* documents that parse as JSON but have a bad shape: a points entry that is
\* not an object, and a points field that is null
DocBadEntry == [points |-> <<PointBare, PointScalar>>]

DocNullPoints == [points |-> None, segments |-> <<SegFull>>]

BadShapeDocs == {DocBadEntry, DocNullPoints}

(***************************************************************************)
(* SceneModel                                                              *)
(***************************************************************************)
\* set_from_dict: the pair <<points, segments>> the model holds afterwards
set_from_dict(isdict, data) ==
    <<IF isdict THEN Get(data, "points", <<>>) ELSE <<>>,
      IF isdict THEN Get(data, "segments", <<>>) ELSE <<>>>>

\* a variant of to_dict that leaves the segments out
to_dict_points_only(pts, segs) == [points |-> pts, segments |-> <<>>]

\* SceneModel.to_dict
to_dict(pts, segs) == [points |-> pts, segments |-> segs]

\* The JSON text of a value, as json.dump writes it: a number, an array of
\* texts, or an object, the set of its key and text pairs.
JsonNum(n) == [num |-> n]

\* the fields of a point or a segment that hold one number; the others
\* (color, start, end) hold a list of numbers
NumFields == {"id", "x", "y", "z", "size", "width"}

DumpNums(seq) == [arr |-> [i \in DOMAIN seq |-> JsonNum(seq[i])]]

DumpField(k, v) == IF k \in NumFields THEN JsonNum(v) ELSE DumpNums(v)

DumpEntry(r) == [obj |-> {<<k, DumpField(k, r[k])>> : k \in DOMAIN r}]

DumpList(v) == [arr |-> [i \in DOMAIN v |-> DumpEntry(v[i])]]

\* json.dump of a scene document (export_json)
json_dump(doc) == [obj |-> {<<k, DumpList(doc[k])>> : k \in DOMAIN doc}]

\* json.load: the value of a JSON text, decided by the text alone
JsonKeys(j) == {p[1] : p \in j.obj}

JsonValue(j, k) == (CHOOSE p \in j.obj : p[1] = k)[2]

LoadNum(j) == j.num

LoadNums(j) == [i \in DOMAIN j.arr |-> LoadNum(j.arr[i])]

LoadField(j) == IF "num" \in DOMAIN j THEN LoadNum(j) ELSE LoadNums(j)

LoadEntry(j) == [k \in JsonKeys(j) |-> LoadField(JsonValue(j, k))]

LoadList(j) == [i \in DOMAIN j.arr |-> LoadEntry(j.arr[i])]

json_load(j) == [k \in JsonKeys(j) |-> LoadList(JsonValue(j, k))]

\* SceneModel.export_json followed by json.load of the written file
ExportImport(pts, segs) == json_load(json_dump(to_dict(pts, segs)))

(***************************************************************************)
(* SceneRenderer: batching                                                 *)
(***************************************************************************)
\* _to_uchar_rgb: clamp each of the first three channels to [0,1], times 255,
\* truncated to an integer
to_uchar_rgb(color) ==
    [i \in 1..Min(3, Len(color)) |-> (Max(0, Min(2, color[i])) * 255) \div 2]

\* float(size) * 0.05 as a 64 bit float, in units of 0.005
ScaleOf(size) == size * 10

\* what a vtkFloatArray keeps of a 64 bit float
ToFloat32(v) == ((v + 12) \div 25) * 25

\* the highlight scale of a point: float(orig) * 2.5
HighlightScale(orig) == (orig * 5) \div 2

HighlightColor == <<255, 0, 0>>

PointPos(p) == <<Get(p, "x", 0), Get(p, "y", 0), Get(p, "z", 0)>>

PointScale(p) == ScaleOf(Get(p, "size", 6))

PointColor(p) == to_uchar_rgb(Get(p, "color", <<2, 2, 2, 2>>))

\* the point arrays render fills from the model's points
RenderPositions(pts) == [i \in 1..Len(pts) |-> PointPos(pts[i])]

RenderScales(pts) == [i \in 1..Len(pts) |-> ToFloat32(PointScale(pts[i]))]

RenderColors(pts) == [i \in 1..Len(pts) |-> PointColor(pts[i])]

\* the originals render caches: the Python floats, not what the array kept
RenderOrigScales(pts) == [i \in 1..Len(pts) |-> PointScale(pts[i])]

\* "not s or not e": a missing start or end is None, modelled as the empty
\* list, which Python also takes for false
SegKept(seg) == Get(seg, "start", <<>>) # <<>> /\ Get(seg, "end", <<>>) # <<>>

KeptSegs(segs) == SelectSeq(segs, SegKept)

\* two fresh positions per kept segment: start at 2i, end at 2i + 1 (0-based)
RenderLinePoints(segs) ==
    LET kept == KeptSegs(segs)
    IN [j \in 1..(2 * Len(kept)) |->
            IF j % 2 = 1 THEN kept[(j + 1) \div 2].start ELSE kept[j \div 2].end]

\* (mutant) cells that chain the positions as a polyline
RenderLineCells_chained(segs) ==
    [i \in 1..Len(KeptSegs(segs)) |-> <<i - 1, i>>]

RenderLineCells(segs) ==
    [i \in 1..Len(KeptSegs(segs)) |-> <<2 * (i - 1), 2 * (i - 1) + 1>>]

RenderLineColors(segs) ==
    LET kept == KeptSegs(segs)
    IN [i \in 1..Len(kept) |-> to_uchar_rgb(Get(kept[i], "color", <<2, 2, 2, 2>>))]

(***************************************************************************)
(* SceneRenderer: selection highlight                                      *)
(***************************************************************************)
\* the originals _update_selection_actor works from: rebuilt from the live
\* arrays when their length is not the point count
SelOrigScales(n, scales, oscales) ==
    IF Len(oscales) # n THEN [i \in 1..n |-> scales[i]] ELSE oscales

SelOrigColors(n, colors, ocolors) ==
    IF Len(ocolors) # n THEN [i \in 1..n |-> colors[i]] ELSE ocolors

\* the selected ids the highlight pass does not skip
InRange(n, sel) == {pid \in Range(sel) : ~(pid < 0 \/ pid >= n)}

\* (mutant) a scale pass that does not skip a selected id beyond the point
\* count and writes an entry for it
SelScales_unchecked(n, oscales, sel) ==
    LET tops == {n} \cup {pid + 1 : pid \in Range(sel)}
        top == CHOOSE t \in tops : \A o \in tops : o <= t
    IN [i \in 1..top |->
            IF i > n THEN 0
            ELSE IF (i - 1) \in Range(sel)
                 THEN ToFloat32(HighlightScale(oscales[i]))
                 ELSE ToFloat32(oscales[i])]

\* restore every point to its original, then enlarge the selected ones
SelScales(n, oscales, sel) ==
    [i \in 1..n |->
        IF (i - 1) \in InRange(n, sel)
        THEN ToFloat32(HighlightScale(oscales[i]))
        ELSE ToFloat32(oscales[i])]

\* (mutant) a colour pass that restores and never paints
SelColors_restore_only(n, ocolors, sel) == [i \in 1..n |-> ocolors[i]]

\* restore every point to its original colour, then paint the selected ones
SelColors(n, ocolors, sel) ==
    [i \in 1..n |-> IF (i - 1) \in InRange(n, sel) THEN HighlightColor ELSE ocolors[i]]

\* (mutant) a single pass that enlarges the selected points and leaves the
\* others as they are
update_selection_actor_no_restore(pp, ps, pc, os, oc, sel) ==
    LET n == Len(pp)
        os2 == SelOrigScales(n, ps, os)
        oc2 == SelOrigColors(n, pc, oc)
    IN [scales |-> [i \in 1..n |->
                        IF (i - 1) \in InRange(n, sel)
                        THEN ToFloat32(HighlightScale(os2[i])) ELSE ps[i]],
        colors |-> [i \in 1..n |->
                        IF (i - 1) \in InRange(n, sel) THEN HighlightColor ELSE pc[i]],
        orig_scales |-> os2,
        orig_colors |-> oc2]

\* _update_selection_actor on the point batch <<positions, scales, colours>>
\* with the cached originals and the selection: the new scales, colours and
\* originals
update_selection_actor(pp, ps, pc, os, oc, sel) ==
    LET n == Len(pp)
        os2 == SelOrigScales(n, ps, os)
        oc2 == SelOrigColors(n, pc, oc)
    IN [scales |-> SelScales(n, os2, sel),
        colors |-> SelColors(n, oc2, sel),
        orig_scales |-> os2,
        orig_colors |-> oc2]

\* The selection pipeline built in __init__ (selection_points,
\* selection_scales, selection_colors): no method inserts into these arrays
\* or resets them, so they hold what the constructor left, nothing.
selection_points == <<>>

selection_scales == <<>>

selection_colors == <<>>

(***************************************************************************)
(* SceneRenderer: picking                                                  *)
(***************************************************************************)
WidgetHeight == 100

SearchRadius == 4

PixelThreshold == 20

FallbackRadius == 2

NoMatch == -1

Dist2(p, q) ==
    (p[1] - q[1]) * (p[1] - q[1]) + (p[2] - q[2]) * (p[2] - q[2])
    + (p[3] - q[3]) * (p[3] - q[3])

\* SetWorldPoint / WorldToDisplay / GetDisplayPoint: the camera looks down
\* the z axis, 10 px per world unit
WorldToDisplay(p) == <<10 * p[1], 10 * p[2]>>

\* squared pixel distance of a world point to the click (Qt coordinates,
\* origin top-left: vtk_y = height - display_y)
ScreenDist2(p, click) ==
    LET d == WorldToDisplay(p)
        dxs == d[1] - click[1]
        dys == d[2] - (WidgetHeight - click[2])
    IN dxs * dxs + dys * dys

\* FindPointsWithinRadius: the locator is attached to the point data set
\* (SetDataSet(point_poly)) and answers for the points pp now in it
Candidates(pp, pick_pos) ==
    {cid \in 0..(Len(pp) - 1) :
        Dist2(pp[cid + 1], pick_pos) <= SearchRadius * SearchRadius}

\* FindClosestPoint (-1 when there is no point)
ClosestPoints(pp, pick_pos) ==
    IF Len(pp) = 0 THEN {NoMatch}
    ELSE {cid \in 0..(Len(pp) - 1) :
            \A o \in 0..(Len(pp) - 1) :
                Dist2(pp[cid + 1], pick_pos) <= Dist2(pp[o + 1], pick_pos)}

\* the candidates at the head of the list after candidates.sort: the order
\* of the id list among equal distances is the locator's
BestCandidates(pp, click, pick_pos) ==
    LET cands == Candidates(pp, pick_pos)
    IN {c \in cands :
            \A o \in cands : ScreenDist2(pp[c + 1], click) <= ScreenDist2(pp[o + 1], click)}

\* (mutant) a threshold test that also rejects a distance equal to the
\* threshold
PickOutcomes_strict(pp, click, pick_pos) ==
    IF Candidates(pp, pick_pos) # {}
    THEN {IF ScreenDist2(pp[c + 1], click) >= PixelThreshold * PixelThreshold
          THEN NoMatch ELSE c :
            c \in BestCandidates(pp, click, pick_pos)}
    ELSE {IF c = NoMatch THEN NoMatch
          ELSE IF Dist2(pp[c + 1], pick_pos) > FallbackRadius * FallbackRadius
               THEN NoMatch ELSE c :
            c \in ClosestPoints(pp, pick_pos)}

\* the ids pick_and_select can resolve to (NoMatch: it returns None)
PickOutcomes(pp, click, pick_pos) ==
    IF Candidates(pp, pick_pos) # {}
    THEN {IF ScreenDist2(pp[c + 1], click) > PixelThreshold * PixelThreshold
          THEN NoMatch ELSE c :
            c \in BestCandidates(pp, click, pick_pos)}
    ELSE {IF c = NoMatch THEN NoMatch
          ELSE IF Dist2(pp[c + 1], pick_pos) > FallbackRadius * FallbackRadius
               THEN NoMatch ELSE c :
            c \in ClosestPoints(pp, pick_pos)}

\* (mutant) a toggle that adds without looking for the id first
SelectionLogic_always_append(sel, pid, multi) ==
    IF ~multi THEN <<pid>> ELSE Append(sel, pid)

\* the selection logic: replace, or toggle membership when multi
SelectionLogic(sel, pid, multi) ==
    IF ~multi THEN <<pid>>
    ELSE IF pid \in Range(sel) THEN ListRemove(sel, pid)
    ELSE Append(sel, pid)

(***************************************************************************)
(* Payloads: the text of a file or of a message. json: it parses as JSON;  *)
(* isdict: the parsed value is a dict, and then data is that dict.         *)
(***************************************************************************)
NoData == [points |-> <<>>]

NotJson == [json |-> FALSE, isdict |-> FALSE, data |-> NoData]

JsonList == [json |-> TRUE, isdict |-> FALSE, data |-> NoData]

DictPayload(d) == [json |-> TRUE, isdict |-> TRUE, data |-> d]

\* what the file dialog of load_json can open
FilePayloads == {NotJson, JsonList} \cup {DictPayload(d) : d \in Docs}

DocA == [points |-> <<PointBare>>, segments |-> <<SegFull>>]

DocB == [points |-> <<PointRed, PointBare>>]

\* what the publisher can send
WirePayloads == {NotJson, JsonList, DictPayload(DocA), DictPayload(DocB)}

\* the pointer clicks (Qt widget coordinates) and the world positions the
\* cell picker can report for them
Clicks == {<<15, 100>>, <<50, 100>>, <<51, 100>>}

PickPositions == {<<-2, 0, 0>>, <<2, 0, 0>>, <<7, 0, 0>>, <<20, 0, 0>>}

\* the counts entered in the dialog of generate_data
SpinPoints == {0, 1, 2}

SpinSegments == {0, 1}

\* the values random.uniform / random.random can draw for one point
GenChoices ==
    {[x |-> 0, y |-> 0, z |-> 0, size |-> 5, color |-> <<1, 0, 1, 2>>],
     [x |-> 3, y |-> 0, z |-> 0, size |-> 6, color |-> <<0, 1, 1, 2>>]}

(***************************************************************************)
(* Initial state: MainWindow.__init__, SceneModel.__init__,                *)
(* SceneRenderer.__init__                                                  *)
(***************************************************************************)
\* The record of the UI context's last operation: op, the arguments and the
\* result of a pick (pid), and the selection before it. twice: this pick and
\* the one before it were both multi picks that resolved to the same id, and
\* then before2 is the selection before the first of the two.
LastOp(op, multi, pid, before) ==
    LET twice == /\ op = "pick" /\ multi /\ pid # NoMatch
                 /\ last.op = "pick" /\ last.multi /\ last.pid = pid
    IN [op |-> op, multi |-> multi, pid |-> pid, before |-> before,
        twice |-> twice, before2 |-> IF twice THEN last.before ELSE <<>>]

Init ==
    /\ points = <<>>
    /\ segments = <<>>
    /\ point_points = <<>>
    /\ point_scales = <<>>
    /\ point_colors = <<>>
    /\ orig_scales = <<>>
    /\ orig_colors = <<>>
    /\ selected_ids = <<>>
    /\ line_points = <<>>
    /\ lines_cells = <<>>
    /\ line_colors = <<>>
    /\ status = "Ready"
    /\ sub = 0
    /\ subs = <<>>
    /\ events = <<>>
    /\ received = 0
    /\ last = [op |-> "init", multi |-> FALSE, pid |-> NoMatch, before |-> <<>>,
               twice |-> FALSE, before2 |-> <<>>]

(***************************************************************************)
(* SceneRenderer.render and SceneRenderer.clear                            *)
(***************************************************************************)
\* (mutant) a render that appends to the arrays without resetting them
render_no_reset(pts, segs) ==
    /\ point_points' = point_points \o RenderPositions(pts)
    /\ point_scales' = point_scales \o RenderScales(pts)
    /\ point_colors' = point_colors \o RenderColors(pts)
    /\ orig_scales' = orig_scales \o RenderOrigScales(pts)
    /\ orig_colors' = orig_colors \o RenderColors(pts)
    /\ line_points' = RenderLinePoints(segs)
    /\ lines_cells' = RenderLineCells(segs)
    /\ line_colors' = RenderLineColors(segs)
    /\ UNCHANGED selected_ids

\* (mutant) a render that drops the selection
render_clears_selection(pts, segs) ==
    /\ point_points' = RenderPositions(pts)
    /\ point_scales' = RenderScales(pts)
    /\ point_colors' = RenderColors(pts)
    /\ orig_scales' = RenderOrigScales(pts)
    /\ orig_colors' = RenderColors(pts)
    /\ line_points' = RenderLinePoints(segs)
    /\ lines_cells' = RenderLineCells(segs)
    /\ line_colors' = RenderLineColors(segs)
    /\ selected_ids' = <<>>

render(pts, segs) ==
    LET pp == RenderPositions(pts)
        u == update_selection_actor(pp, RenderScales(pts), RenderColors(pts),
                                    RenderOrigScales(pts), RenderColors(pts),
                                    selected_ids)
    IN /\ point_points' = pp
       /\ point_scales' = u.scales
       /\ point_colors' = u.colors
       /\ orig_scales' = u.orig_scales
       /\ orig_colors' = u.orig_colors
       /\ line_points' = RenderLinePoints(segs)
       /\ lines_cells' = RenderLineCells(segs)
       /\ line_colors' = RenderLineColors(segs)
       /\ UNCHANGED selected_ids

\* "for p in pts" raises for None, and p.get raises for an entry that is
\* not a dict
RenderRaises(pts) == pts = None \/ \E i \in DOMAIN pts : ~IsObject(pts[i])

\* the points render has appended when it raises: those before the first
\* entry that is not a dict; none when pts is None
RenderedBeforeRaise(pts) ==
    IF pts = None THEN <<>>
    ELSE SubSeq(pts, 1, (CHOOSE i \in DOMAIN pts :
                            /\ ~IsObject(pts[i])
                            /\ \A j \in 1..(i - 1) : IsObject(pts[j])) - 1)

\* render when the loop over the points raises: the point arrays and the
\* originals were reset and hold the points before the bad one, without
\* highlight; the line batch and the selection were not reached
render_raises(pts) ==
    LET done == RenderedBeforeRaise(pts)
    IN /\ point_points' = RenderPositions(done)
       /\ point_scales' = RenderScales(done)
       /\ point_colors' = RenderColors(done)
       /\ orig_scales' = RenderOrigScales(done)
       /\ orig_colors' = RenderColors(done)
       /\ UNCHANGED <<lineVars, selected_ids>>

\* SceneRenderer.clear: resets the point and line arrays, nothing else
clear ==
    /\ point_points' = <<>>
    /\ point_scales' = <<>>
    /\ point_colors' = <<>>
    /\ line_points' = <<>>
    /\ lines_cells' = <<>>
    /\ line_colors' = <<>>
    /\ UNCHANGED <<orig_scales, orig_colors, selected_ids>>

\* (mutant) a pick that clears the selection when a single-select resolves
\* no point
pick_and_select_clear_on_miss(pid, multi) ==
    LET sel == IF pid = NoMatch
               THEN (IF multi THEN selected_ids ELSE <<>>)
               ELSE SelectionLogic(selected_ids, pid, multi)
        u == update_selection_actor(point_points, point_scales, point_colors,
                                    orig_scales, orig_colors, sel)
    IN /\ selected_ids' = sel
       /\ point_scales' = u.scales
       /\ point_colors' = u.colors
       /\ orig_scales' = u.orig_scales
       /\ orig_colors' = u.orig_colors
       /\ UNCHANGED <<point_points, lineVars>>

\* pick_and_select once the pick resolved to pid (None: nothing is touched)
pick_and_select(pid, multi) ==
    IF pid = NoMatch
    THEN UNCHANGED renVars
    ELSE LET sel == SelectionLogic(selected_ids, pid, multi)
             u == update_selection_actor(point_points, point_scales, point_colors,
                                         orig_scales, orig_colors, sel)
         IN /\ selected_ids' = sel
            /\ point_scales' = u.scales
            /\ point_colors' = u.colors
            /\ orig_scales' = u.orig_scales
            /\ orig_colors' = u.orig_colors
            /\ UNCHANGED <<point_points, lineVars>>

(***************************************************************************)
(* MainWindow: the user's actions (the UI thread is not inside stop())     *)
(***************************************************************************)
\* (mutant) a load that empties the model before it parses the file
load_json_clear_first(f) ==
    /\ IF f.json
       THEN LET m == set_from_dict(f.isdict, f.data)
            IN /\ points' = m[1]
               /\ segments' = m[2]
               /\ IF RenderRaises(m[1])
                  THEN /\ render_raises(m[1])
                       /\ status' = "Load error"
                       /\ last' = LastOp("load_shape_error", FALSE, NoMatch, selected_ids)
                  ELSE /\ render(m[1], m[2])
                       /\ status' = "Loaded"
                       /\ last' = LastOp("load", FALSE, NoMatch, selected_ids)
       ELSE /\ points' = <<>>
            /\ segments' = <<>>
            /\ status' = "Load error"
            /\ last' = LastOp("load_error", FALSE, NoMatch, selected_ids)
            /\ UNCHANGED renVars
    /\ UNCHANGED subVars

\* load_json with the file f chosen in the dialog: json.load raises when f is
\* not JSON; otherwise set_from_dict, then render, which can raise on a bad
\* shape; every exception ends in the 'Load error' status
load_json(f) ==
    /\ IF f.json
       THEN LET m == set_from_dict(f.isdict, f.data)
            IN /\ points' = m[1]
               /\ segments' = m[2]
               /\ IF RenderRaises(m[1])
                  THEN /\ render_raises(m[1])
                       /\ status' = "Load error"
                       /\ last' = LastOp("load_shape_error", FALSE, NoMatch, selected_ids)
                  ELSE /\ render(m[1], m[2])
                       /\ status' = "Loaded"
                       /\ last' = LastOp("load", FALSE, NoMatch, selected_ids)
       ELSE /\ status' = "Load error"
            /\ last' = LastOp("load_error", FALSE, NoMatch, selected_ids)
            /\ UNCHANGED <<modelVars, renVars>>
    /\ UNCHANGED subVars

LoadJson == \E f \in FilePayloads : load_json(f)

clear_scene ==
    /\ points' = <<>>
    /\ segments' = <<>>
    /\ clear
    /\ status' = "Cleared"
    /\ last' = LastOp("clear", FALSE, NoMatch, selected_ids)
    /\ UNCHANGED subVars

\* SceneModel.randomize: the points, given the values drawn
GenPoints(vals) ==
    [i \in 1..Len(vals) |->
        [id |-> i - 1, x |-> vals[i].x, y |-> vals[i].y, z |-> vals[i].z,
         size |-> vals[i].size, color |-> vals[i].color]]

\* SceneModel.randomize: the segments, given the point indices random.choice
\* drew for each start and end
GenSegs(pts, ends) ==
    [i \in 1..Len(ends) |->
        [start |-> PointPos(pts[ends[i][1]]), end |-> PointPos(pts[ends[i][2]]),
         color |-> <<1, 1, 0, 2>>, width |-> 2]]

generate_data(n_points, n_segments) ==
    /\ IF n_points = 0 /\ n_segments > 0
       THEN \* random.choice of an empty list raises after model.clear()
            /\ points' = <<>>
            /\ segments' = <<>>
            /\ last' = LastOp("generate_error", FALSE, NoMatch, selected_ids)
            /\ UNCHANGED <<renVars, status>>
       ELSE \E vals \in [1..n_points -> GenChoices] :
            \E ends \in [1..n_segments -> (1..n_points) \X (1..n_points)] :
                LET pts == GenPoints(vals)
                    segs == GenSegs(pts, ends)
                IN /\ points' = pts
                   /\ segments' = segs
                   /\ render(pts, segs)
                   /\ status' = "Generated"
                   /\ last' = LastOp("generate", FALSE, NoMatch, selected_ids)
    /\ UNCHANGED subVars

GenerateData ==
    \E n_points \in SpinPoints : \E n_segments \in SpinSegments :
        generate_data(n_points, n_segments)

\* eventFilter: a right-button release in select mode
pick(click, pick_pos, multi) ==
    /\ \E pid \in PickOutcomes(point_points, click, pick_pos) :
        /\ pick_and_select(pid, multi)
        /\ last' = LastOp("pick", multi, pid, selected_ids)
    /\ UNCHANGED <<modelVars, status, subVars>>

Pick == \E click \in Clicks : \E pick_pos \in PickPositions : \E multi \in BOOLEAN :
            pick(click, pick_pos, multi)

UINext == LoadJson \/ clear_scene \/ GenerateData \/ Pick

Spec == Init /\ [][UINext]_vars

\* the files of bad shape the dialog of load_json can open as well
BadShapePayloads == {DictPayload(d) : d \in BadShapeDocs}

LoadBadShape == \E f \in BadShapePayloads : load_json(f)

ShapeNext == LoadBadShape \/ LoadJson \/ clear_scene \/ GenerateData \/ Pick

\* the UI context when the files it loads can have a bad shape too
ShapeSpec == Init /\ [][ShapeNext]_vars

\* documents with one point or none and up to MaxLineSegs segments, complete
\* ones and ones without a start or without an end in any order
LineDocs ==
    {[points |-> ps, segments |-> ss] :
        ps \in SeqsUpTo({PointBare}, 1),
        ss \in SeqsUpTo({SegFull, SegNoEnd, SegNoStart}, MaxLineSegs)}

LoadLines == \E d \in LineDocs : load_json(DictPayload(d))

LineNext == LoadLines \/ clear_scene

LineSpec == Init /\ [][LineNext]_vars

(***************************************************************************)
(* ZMQSubscriber: one record per object. pc is the worker thread's place in *)
(* run(): "start" before the socket is set up, "loop" at the while test,   *)
(* "poll" in poller.poll, "parse" with a payload in hand, "done" when      *)
(* run() has returned. running is the _running flag; raw is the payload    *)
(* sock.recv() returned; sock and ctx are "none", "open" or "closed";      *)
(* errored: run() went through its outer except clause.                    *)
(***************************************************************************)
NewSub ==
    [pc |-> "start", running |-> TRUE, raw |-> NotJson,
     sock |-> "none", ctx |-> "none", errored |-> FALSE]

\* QThread.isRunning(): from start() until run() has returned
isRunning(s) == subs[s].pc # "done"

\* the worker is in the while loop of run()
InLoop(s) == subs[s].pc \in {"loop", "poll", "parse"}

\* a signal emitted by the worker, posted to the UI thread's event queue
\* (from: the emitting subscriber, for msg events)
StatusEvent(text) ==
    [sig |-> "status", from |-> 0, text |-> text, isdict |-> FALSE, data |-> NoData]

MsgEvent(s, payload) ==
    [sig |-> "msg", from |-> s, text |-> "", isdict |-> payload.isdict, data |-> payload.data]

\* an exception raised inside the outer try of run(), after the context and
\* the socket were created: except Exception: status.emit("ZMQ thread
\* error"), and run() returns
Raise(s) ==
    /\ subs' = [subs EXCEPT ![s].pc = "done", ![s].errored = TRUE,
                            ![s].ctx = "open", ![s].sock = "open"]
    /\ events' = Append(events, StatusEvent("ZMQ thread error"))
    /\ UNCHANGED received

\* ctx = zmq.Context(); sock = ctx.socket(zmq.SUB); then setsockopt, connect
\* (either can raise), register and status.emit("ZMQ connected")
w_connect(s) ==
    /\ subs[s].pc = "start"
    /\ \/ /\ subs' = [subs EXCEPT ![s].pc = "loop", ![s].ctx = "open", ![s].sock = "open"]
          /\ events' = Append(events, StatusEvent("ZMQ connected"))
          /\ UNCHANGED received
       \/ Raise(s)

\* (mutant) a loop that does not look at the flag
w_loop_forever(s) ==
    /\ subs[s].pc = "loop"
    /\ subs' = [subs EXCEPT ![s].pc = "poll"]
    /\ UNCHANGED <<events, received>>

\* while self._running; when the flag is down: sock.close(); ctx.term()
w_loop(s) ==
    /\ subs[s].pc = "loop"
    /\ subs' = IF subs[s].running
               THEN [subs EXCEPT ![s].pc = "poll"]
               ELSE [subs EXCEPT ![s].pc = "done", ![s].sock = "closed", ![s].ctx = "closed"]
    /\ UNCHANGED <<events, received>>

\* (mutant) a poll without a timeout: it returns only when a payload is there
w_poll_blocking(s) ==
    /\ subs[s].pc = "poll"
    /\ received < MaxMsgs
    /\ received' = received + 1
    /\ \E payload \in WirePayloads :
            subs' = [subs EXCEPT ![s].pc = "parse", ![s].raw = payload]
    /\ UNCHANGED events

\* socks = dict(poller.poll(self.poll_ms)): the poll returns after the
\* interval with nothing, or with POLLIN when the publisher has sent a
\* payload, and then raw = sock.recv() takes it; poll and recv can raise
w_poll(s) ==
    /\ subs[s].pc = "poll"
    /\ \/ /\ subs' = [subs EXCEPT ![s].pc = "loop"]
          /\ UNCHANGED <<events, received>>
       \/ /\ received < MaxMsgs
          /\ received' = received + 1
          /\ \E payload \in WirePayloads :
                subs' = [subs EXCEPT ![s].pc = "parse", ![s].raw = payload]
          /\ UNCHANGED events
       \/ Raise(s)

\* (mutant) a parse whose failure is not caught inside the loop
w_parse_fatal(s) ==
    /\ subs[s].pc = "parse"
    /\ IF subs[s].raw.json
       THEN /\ events' = Append(events, MsgEvent(s, subs[s].raw))
            /\ subs' = [subs EXCEPT ![s].pc = "loop", ![s].raw = NotJson]
       ELSE /\ events' = Append(events, StatusEvent("ZMQ thread error"))
            /\ subs' = [subs EXCEPT ![s].pc = "done", ![s].errored = TRUE,
                                    ![s].raw = NotJson]
    /\ UNCHANGED received

\* msg = json.loads(raw.decode('utf-8')); msg_received.emit(msg), or
\* status.emit("Bad message") when the payload does not parse
w_parse(s) ==
    /\ subs[s].pc = "parse"
    /\ events' = Append(events,
                        IF subs[s].raw.json THEN MsgEvent(s, subs[s].raw)
                        ELSE StatusEvent("Bad message"))
    /\ subs' = [subs EXCEPT ![s].pc = "loop", ![s].raw = NotJson]
    /\ UNCHANGED received

\* (mutant) a worker that applies a parsed document itself instead of
\* leaving it to the slot
Worker_applies_document(s) ==
    /\ s \in DOMAIN subs
    /\ \/ /\ \/ w_connect(s) \/ w_loop(s) \/ w_poll(s)
          /\ UNCHANGED <<modelVars, renVars>>
       \/ /\ w_parse(s)
          /\ IF subs[s].raw.json /\ subs[s].raw.isdict
             THEN LET m == set_from_dict(TRUE, subs[s].raw.data)
                  IN /\ points' = m[1]
                     /\ segments' = m[2]
                     /\ render(m[1], m[2])
             ELSE UNCHANGED <<modelVars, renVars>>
    /\ UNCHANGED <<status, sub, last>>

\* one step of the worker thread of subscriber s
Worker(s) ==
    /\ s \in DOMAIN subs
    /\ \/ w_connect(s) \/ w_loop(s) \/ w_poll(s) \/ w_parse(s)
    /\ UNCHANGED <<modelVars, renVars, status, sub, last>>

(***************************************************************************)
(* MainWindow: the subscription                                            *)
(***************************************************************************)
\* toggle_sub, no subscriber running: start one (addr_ok: the address field
\* is not empty)
toggle_sub_start(addr_ok) ==
    /\ ~(sub # 0 /\ isRunning(sub))
    /\ IF addr_ok
       THEN /\ Len(subs) < MaxSubs
            /\ subs' = Append(subs, NewSub)
            /\ sub' = Len(subs) + 1
            /\ status' = "Subscribing"
       ELSE /\ status' = "Invalid addr"
            /\ UNCHANGED <<sub, subs>>
    /\ UNCHANGED <<modelVars, renVars, events, received, last>>

\* toggle_sub, a subscriber running: stop() sets the flag and wait(500)
\* returns, because the thread has finished or because the 500 ms are over
\* (the result is not looked at); then self.sub = None and the status.  The
\* steps the worker takes during the wait are steps it takes after this one.
toggle_sub_stop ==
    /\ sub # 0 /\ isRunning(sub)
    /\ subs' = [subs EXCEPT ![sub].running = FALSE]
    /\ sub' = 0
    /\ status' = "Subscriber stopped"
    /\ UNCHANGED <<modelVars, renVars, events, received, last>>

\* (mutant) a slot that is run for the newest event of the queue
on_msg_newest_first ==
    /\ events # <<>>
    /\ events[Len(events)].sig = "msg"
    /\ events' = SubSeq(events, 1, Len(events) - 1)
    /\ IF events[Len(events)].isdict
       THEN LET m == set_from_dict(TRUE, events[Len(events)].data)
            IN /\ points' = m[1]
               /\ segments' = m[2]
               /\ render(m[1], m[2])
               /\ status' = "Scene updated (dict)"
               /\ last' = LastOp("on_msg", FALSE, NoMatch, selected_ids)
       ELSE /\ status' = "Received unknown message type"
            /\ UNCHANGED <<modelVars, renVars, last>>
    /\ UNCHANGED <<sub, subs, received>>

\* the slot on_msg, run by the UI thread for the msg event at the head of
\* its queue
on_msg ==
    /\ events # <<>>
    /\ Head(events).sig = "msg"
    /\ events' = Tail(events)
    /\ IF Head(events).isdict
       THEN LET m == set_from_dict(TRUE, Head(events).data)
            IN /\ points' = m[1]
               /\ segments' = m[2]
               /\ render(m[1], m[2])
               /\ status' = "Scene updated (dict)"
               /\ last' = LastOp("on_msg", FALSE, NoMatch, selected_ids)
       ELSE /\ status' = "Received unknown message type"
            /\ UNCHANGED <<modelVars, renVars, last>>
    /\ UNCHANGED <<sub, subs, received>>

\* the slot on_status, run by the UI thread for a status event
on_status ==
    /\ events # <<>>
    /\ Head(events).sig = "status"
    /\ events' = Tail(events)
    /\ status' = Head(events).text
    /\ UNCHANGED <<modelVars, renVars, sub, subs, received, last>>

ToggleSubStart == \E addr_ok \in BOOLEAN : toggle_sub_start(addr_ok)

Workers == \E s \in 1..MaxSubs : Worker(s)

SubNext ==
    \/ ToggleSubStart \/ toggle_sub_stop
    \/ on_msg \/ on_status
    \/ Workers

SubSpec == Init /\ [][SubNext]_vars

\* the scheduler runs every worker thread that can take a step and the Qt
\* event loop delivers every posted event
FairSubSpec ==
    /\ SubSpec
    /\ \A s \in 1..MaxSubs : WF_vars(Worker(s))
    /\ WF_vars(on_msg)
    /\ WF_vars(on_status)

(***************************************************************************)
(* Properties of the UI context (specification Spec)                       *)
(***************************************************************************)
NumPoints == Len(point_points)

\* point i (0-based) of the batch is drawn enlarged and in the highlight colour
Highlighted(i) ==
    /\ point_scales[i + 1] = ToFloat32(HighlightScale(orig_scales[i + 1]))
    /\ point_colors[i + 1] = HighlightColor

\* the last operation was a single-select pick that resolved no point
SingleMiss == last.op = "pick" /\ ~last.multi /\ last.pid = NoMatch

\* C1 as stated: a pick_and_select with multi = false that resolves no point
\* leaves the selection empty, whatever was selected before.
C1_MissClearsSelection == SingleMiss => selected_ids = <<>>

\* C1 as amended: a pick_and_select with multi = false that resolves no point
\* leaves the selection exactly as it was before the call.
C1_MissKeepsSelection == SingleMiss => selected_ids = last.before

C1_Witness == SingleMiss /\ selected_ids # <<>>

\* C2 as stated: two consecutive multi picks that resolve to the same index
\* return the ordered selection to the value it had before the first.
C2_TogglePairRestoresOrder == last.twice => selected_ids = last.before2

\* C2 as amended: two consecutive multi picks that resolve to the same index i
\* return the selection to the same set of indices; the sequence itself is
\* restored when i was not selected before the first call, and otherwise i
\* has moved to the end with the order of the other indices kept.
C2_TogglePairRestoresMembers ==
    last.twice =>
        /\ Range(selected_ids) = Range(last.before2)
        /\ Len(selected_ids) = Len(last.before2)
        /\ selected_ids =
              IF last.pid \in Range(last.before2)
              THEN Append(ListRemove(last.before2, last.pid), last.pid)
              ELSE last.before2

C2_Witness ==
    /\ last.twice
    /\ Len(last.before2) = 2
    /\ last.before2[1] = last.pid
    /\ selected_ids # last.before2

\* the in-range indices the last pick removed from the selection
Deselected ==
    {i \in Range(last.before) :
        last.op = "pick" /\ i \notin Range(selected_ids) /\ i >= 0 /\ i < NumPoints}

\* C3 as stated: a point that was selected and then removed from the selection
\* has, in the point batch, exactly the scale and the colour cached for it at
\* the most recent render.
C3_DeselectedEqualsCached ==
    \A i \in Deselected :
        /\ point_scales[i + 1] = orig_scales[i + 1]
        /\ point_colors[i + 1] = orig_colors[i + 1]

\* C3 as amended: a point that was selected and then removed from the
\* selection has exactly the colour cached for it at the most recent render,
\* and its scale is the cached scale as the 32 bit float array stores it (the
\* value the batch held right after that render), which is the cached 64 bit
\* value only when that value is a 32 bit float.
C3_DeselectedRestored ==
    \A i \in Deselected :
        /\ point_scales[i + 1] = ToFloat32(orig_scales[i + 1])
        /\ point_colors[i + 1] = orig_colors[i + 1]
        /\ ~Highlighted(i)

C3_Witness ==
    \E i \in Deselected :
        /\ point_scales[i + 1] # orig_scales[i + 1]
        /\ selected_ids # <<>>

\* C4: after a render that completes, the position, scale and colour arrays of
\* the point batch each have as many entries as the model has points; after
\* clear the point arrays and the line arrays are empty.
C4_ArrayLengths ==
    /\ last.op \in {"load", "generate"} =>
        /\ Len(point_points) = Len(points)
        /\ Len(point_scales) = Len(points)
        /\ Len(point_colors) = Len(points)
    /\ last.op = "clear" =>
        /\ Len(point_points) = 0 /\ Len(point_scales) = 0 /\ Len(point_colors) = 0
        /\ Len(line_points) = 0 /\ Len(lines_cells) = 0 /\ Len(line_colors) = 0

C4_Witness ==
    /\ last.op = "load"
    /\ Len(points) = 1
    /\ Len(last.before) = 2

\* the last operation replaced the point sequence by a render
Replaced == last.op \in {"load", "generate"}

\* C5 as stated: after the point sequence was replaced wholesale, no index
\* that was selected against the old sequence is highlighted on a point of
\* the new one.
C5_ReplaceInvalidatesSelection ==
    Replaced => \A i \in Range(last.before) : (i < NumPoints => ~Highlighted(i))

\* C5 as amended: a wholesale replacement (and clear) carries the selection
\* over unchanged; every selected index in range of the new sequence is
\* highlighted on the new point at that index, every other point of the new
\* sequence is not, and indices out of range are skipped.
C5_ReplaceKeepsSelection ==
    (Replaced \/ last.op = "clear") =>
        /\ selected_ids = last.before
        /\ \A i \in 0..(NumPoints - 1) :
              Highlighted(i) <=> i \in Range(selected_ids)

C5_Witness ==
    /\ Replaced
    /\ \E i \in Range(last.before) : i < NumPoints /\ Highlighted(i)
    /\ \E i \in Range(last.before) : i >= NumPoints

\* C11: a load_json whose file does not parse as JSON (or cannot be read)
\* reports the 'Load error' status and leaves the model's points and segments
\* and the whole renderer state as they were.
C11_ParseFailureKeepsModel ==
    [][last'.op = "load_error" =>
            /\ status' = "Load error"
            /\ points' = points /\ segments' = segments
            /\ UNCHANGED renVars]_vars

\* a failed load after which a scene with a selection is still there
C11_Witness ==
    /\ last.op = "load_error"
    /\ status = "Load error"
    /\ points # <<>>
    /\ selected_ids # <<>>

\* C12: a load_json whose file parses as JSON but has a bad shape, and so
\* ends with the error status, leaves the model's points and segments and the
\* renderer's point and line batches as they were before the load.
C12_BadShapePreservesState ==
    [][last'.op = "load_shape_error" =>
            /\ points' = points /\ segments' = segments
            /\ UNCHANGED <<point_points, point_scales, point_colors, lineVars>>]_vars

\* C13: for every N and M the dialog can give, N = 0 with M > 0 included, the
\* randomize of generate_data leaves the model with exactly N points and M
\* segments, and every segment starts and ends at a generated point.
C13_RandomizeCounts ==
    [][\A n \in SpinPoints : \A m \in SpinSegments :
            generate_data(n, m) =>
                /\ Len(points') = n
                /\ Len(segments') = m
                /\ \A i \in DOMAIN segments' :
                      /\ \E j \in DOMAIN points' : segments'[i].start = PointPos(points'[j])
                      /\ \E j \in DOMAIN points' : segments'[i].end = PointPos(points'[j])]_vars

\* C14: after any sequence of model operations, set_from_dict with a
\* document whose points field is null included, the model's points and
\* segments are sequences and never None.
C14_NeverNull == points # None /\ segments # None

\* C15: importing a valid scene document and exporting the model gives a
\* document with the same points and the same segments, in the same order
\* and field for field (an absent list is exported as the empty list); and
\* exporting the model, clearing it and importing the exported file restores
\* the points and the segments the model had.
C15_ExportImportRoundTrip ==
    /\ \A D \in Docs :
          LET m == set_from_dict(TRUE, json_load(json_dump(D)))
              out == ExportImport(m[1], m[2])
          IN /\ DOMAIN out = {"points", "segments"}
             /\ out.points = Get(D, "points", <<>>)
             /\ out.segments = Get(D, "segments", <<>>)
    /\ set_from_dict(TRUE, ExportImport(points, segments)) = <<points, segments>>

\* a generated scene with two points and a segment is in the model
C15_Witness ==
    /\ last.op = "generate"
    /\ Len(points) = 2
    /\ Len(segments) = 1
    /\ ExportImport(points, segments).segments = segments

\* C16: when the radius query returns at least one candidate, the pick
\* resolves to a candidate whose squared screen distance to the click is the
\* least among the candidates, and it returns no match, selecting nothing,
\* exactly when that least distance exceeds 20*20; a distance equal to 20*20
\* is accepted.
C16_NearestWithinThreshold ==
    [][\A click \in Clicks : \A pick_pos \in PickPositions : \A multi \in BOOLEAN :
          (/\ last'.op = "pick"
           /\ last'.multi = multi
           /\ Candidates(point_points, pick_pos) # {}
           /\ pick(click, pick_pos, multi)) =>
              LET cands == Candidates(point_points, pick_pos)
                  least == CHOOSE d \in {ScreenDist2(point_points[c + 1], click) : c \in cands} :
                              \A c \in cands : d <= ScreenDist2(point_points[c + 1], click)
              IN /\ (last'.pid = NoMatch) <=> (least > 20 * 20)
                 /\ last'.pid = NoMatch => UNCHANGED renVars
                 /\ last'.pid # NoMatch =>
                       /\ last'.pid \in cands
                       /\ ScreenDist2(point_points[last'.pid + 1], click) = least
                       /\ selected_ids' = SelectionLogic(selected_ids, last'.pid, multi)]_vars

\* a pick among two points resolved to the point at x = 3, which is 20 px
\* from the click at x = 50 and a candidate of the radius query
C16_Witness ==
    /\ last.op = "pick"
    /\ NumPoints = 2
    /\ last.pid # NoMatch
    /\ point_points[last.pid + 1][1] = 3
    /\ ScreenDist2(point_points[last.pid + 1], <<50, 100>>) = 20 * 20
    /\ \E pick_pos \in PickPositions : last.pid \in Candidates(point_points, pick_pos)

\* the highlight pass run once more on the renderer state as it is
Reapplied ==
    update_selection_actor(point_points, point_scales, point_colors,
                           orig_scales, orig_colors, selected_ids)

\* C18 as stated: every point of the batch has 2.5 times its cached original
\* scale and the highlight colour if it is selected, and exactly its cached
\* original scale and colour otherwise.
C18_ExactlyCachedOrHighlighted ==
    \A i \in 0..(NumPoints - 1) :
        IF i \in Range(selected_ids)
        THEN /\ point_scales[i + 1] = HighlightScale(orig_scales[i + 1])
             /\ point_colors[i + 1] = HighlightColor
        ELSE /\ point_scales[i + 1] = orig_scales[i + 1]
             /\ point_colors[i + 1] = orig_colors[i + 1]

\* C18 as amended: every point of the batch has the highlight colour and, as
\* the 32 bit float array stores it, 2.5 times its cached original scale if
\* it is selected, and its cached original colour and its cached original
\* scale as the 32 bit float array stores it otherwise; running the
\* highlight pass once more changes neither the batch nor, while the batch
\* has points, the snapshots.
C18_HighlightFollowsSelection ==
    /\ \A i \in 0..(NumPoints - 1) :
          IF i \in Range(selected_ids)
          THEN Highlighted(i)
          ELSE /\ point_scales[i + 1] = ToFloat32(orig_scales[i + 1])
               /\ point_colors[i + 1] = orig_colors[i + 1]
    /\ Reapplied.scales = point_scales
    /\ Reapplied.colors = point_colors
    /\ NumPoints > 0 =>
          /\ Reapplied.orig_scales = orig_scales
          /\ Reapplied.orig_colors = orig_colors

\* after a pick that deselected a point, one point is highlighted and another,
\* whose cached scale is not a 32 bit float, is back at its stored original
C18_Witness ==
    /\ last.op = "pick"
    /\ NumPoints = 2
    /\ Len(selected_ids) = 1
    /\ \E i \in Deselected :
          /\ point_scales[i + 1] # orig_scales[i + 1]
          /\ point_colors[i + 1] # HighlightColor
    /\ \E i \in Range(selected_ids) : Highlighted(i)

\* the last operation was a render that completed with fewer points than
\* some index of the selection it was given
RenderedBelowSelection ==
    /\ last.op \in {"load", "generate"}
    /\ \E i \in Range(last.before) : i >= NumPoints

\* C19: a render whose new point count is at or below some selected index
\* completes; the point arrays and the snapshots have exactly one entry per
\* new point, so nothing is written at or beyond the new count; every
\* selected index within the new count is highlighted; and every selected
\* index at or beyond it is skipped by the highlight pass (it stays in the
\* selection that render carries over).
C19_OutOfRangeSkipped ==
    RenderedBelowSelection =>
        /\ status \in {"Loaded", "Generated"}
        /\ NumPoints = Len(points)
        /\ Len(point_scales) = NumPoints
        /\ Len(point_colors) = NumPoints
        /\ Len(orig_scales) = NumPoints
        /\ Len(orig_colors) = NumPoints
        /\ \A i \in Range(last.before) : (i >= 0 /\ i < NumPoints) => Highlighted(i)
        /\ \A i \in 0..(NumPoints - 1) :
              i \notin Range(last.before) =>
                  point_scales[i + 1] = ToFloat32(PointScale(points[i + 1]))
        /\ selected_ids = last.before

\* a render left one point, which is selected and highlighted, and the
\* selection still holds the index 1 of a point that is gone
C19_Witness ==
    /\ RenderedBelowSelection
    /\ NumPoints = 1
    /\ Range(selected_ids) = {0, 1}
    /\ Highlighted(0)

\* C20: in every state reached by render, clear and pick_and_select calls the
\* original-scale snapshot and the original-colour snapshot each have as many
\* entries as the point batch has points.
C20_SnapshotLengths ==
    /\ Len(orig_scales) = NumPoints
    /\ Len(orig_colors) = NumPoints

\* C21: a pick_and_select that resolves a point leaves the position, scale
\* and colour arrays of the base point batch as render built them, and the
\* separate highlight batch then holds one entry for each selected index in
\* range and no other.
C21_HighlightBatchOnly ==
    [][(last'.op = "pick" /\ last'.pid # NoMatch) =>
            /\ UNCHANGED <<point_points, point_scales, point_colors>>
            /\ Len(selection_points) = Cardinality(InRange(NumPoints, selected_ids'))
            /\ Len(selection_scales) = Len(selection_points)
            /\ Len(selection_colors) = Len(selection_points)]_vars

\* pick positions along the x axis, from far on one side of the points to
\* far on the other
ProbePositions == {<<x, 0, 0>> : x \in -8..12}

\* C22: when the radius query around the pick position returns no candidate,
\* the pick falls back to the nearest point and resolves to it when it is at
\* most 2.0 units from the pick position, so that in a scene with points
\* some pick whose radius query is empty still resolves to a point.
C22_FallbackCanResolve ==
    NumPoints > 0 =>
        \E pos \in ProbePositions : \E click \in Clicks :
            /\ Candidates(point_points, pos) = {}
            /\ PickOutcomes(point_points, click, pos) # {NoMatch}

\* C23: after any sequence of picks (single or multi), renders and clears
\* the selection holds no index twice.
C23_NoDuplicateSelection ==
    \A i \in DOMAIN selected_ids : \A j \in DOMAIN selected_ids :
        i # j => selected_ids[i] # selected_ids[j]

\* two indices are selected, the second by a multi pick of an index that the
\* multi pick before it had removed
C23_Witness ==
    /\ last.op = "pick"
    /\ last.twice
    /\ Len(selected_ids) = 2
    /\ selected_ids[2] = last.pid
    /\ last.pid \in Range(last.before2)

\* the indices (1-based, in model order) of the segments that have both a
\* start and an end
Complete == {i \in DOMAIN segments : {"start", "end"} \subseteq DOMAIN segments[i]}

\* the index in the model of the k-th complete segment
NthComplete(k) ==
    CHOOSE i \in Complete : Cardinality({j \in Complete : j <= i}) = k

\* C24: a render of a model with segments that lack a start or an end
\* completes, and the line batch then holds K cells, K colours and 2*K
\* positions, K being the number of complete segments; the i-th complete
\* segment (from 0) is the cell of the positions 2i and 2i+1, which hold its
\* start and its end, so no position belongs to two cells.
C24_LineBatchOfCompleteSegments ==
    last.op = "load" =>
        LET K == Cardinality(Complete)
        IN /\ status = "Loaded"
           /\ Len(lines_cells) = K
           /\ Len(line_colors) = K
           /\ Len(line_points) = 2 * K
           /\ \A k \in 1..K :
                 /\ lines_cells[k] = <<2 * (k - 1), 2 * (k - 1) + 1>>
                 /\ line_points[lines_cells[k][1] + 1] = segments[NthComplete(k)].start
                 /\ line_points[lines_cells[k][2] + 1] = segments[NthComplete(k)].end
           /\ \A k \in 1..K : \A o \in 1..K :
                 k # o => {lines_cells[k][1], lines_cells[k][2]}
                              \cap {lines_cells[o][1], lines_cells[o][2]} = {}

\* four segments were rendered, a complete one, one without an end, one
\* without a start and a second complete one, which is the cell of the
\* positions 2 and 3
C24_Witness ==
    /\ last.op = "load"
    /\ segments = <<SegFull, SegNoEnd, SegNoStart, SegFull>>
    /\ lines_cells = <<<<0, 1>>, <<2, 3>>>>
    /\ Len(line_points) = 4

(***************************************************************************)
(* Properties of the subscription (specifications SubSpec, FairSubSpec)    *)
(***************************************************************************)
RunningWorkers == {s \in DOMAIN subs : isRunning(s)}

PendingDocs(s) == {i \in DOMAIN events : events[i].sig = "msg" /\ events[i].from = s}

DocApplied(d) ==
    /\ last.op = "on_msg"
    /\ points = Get(d, "points", <<>>)
    /\ segments = Get(d, "segments", <<>>)

\* C6: in every interleaving of toggle_sub calls and worker steps, at most
\* one subscriber worker thread is running at any time.
C6_OneWorkerAtATime == Cardinality(RunningWorkers) <= 1

\* C7: a worker that parses a payload that is not JSON posts exactly one
\* "Bad message" status event, posts no document and goes back to its loop;
\* and a JSON document a worker has received is eventually applied: the
\* scene model holds that document's points and segments.
C7_BadPayloadIsNotFatal ==
    /\ [][\A s \in DOMAIN subs :
            (subs[s].pc = "parse" /\ ~subs[s].raw.json /\ subs'[s].pc # "parse")
            => /\ events' = Append(events, StatusEvent("Bad message"))
               /\ subs'[s].pc = "loop"]_vars
    /\ \A s \in 1..MaxSubs : \A d \in {DocA, DocB} :
            (s \in DOMAIN subs /\ subs[s].pc = "parse" /\ subs[s].raw = DictPayload(d))
            ~> DocApplied(d)

\* a worker has reported a bad payload, has then forwarded a document, and
\* is back in its loop
C7_Witness ==
    /\ Len(subs) = 1
    /\ subs[1].pc = "loop"
    /\ events = <<StatusEvent("Bad message"), MsgEvent(1, DictPayload(DocB))>>

\* C8: whenever run() has finished, normally or by an error raised after the
\* context and the socket were created, the socket is closed and the context
\* terminated, and in the error case the terminal status event was emitted.
C8_ReleasedOnExit ==
    \A s \in DOMAIN subs :
        subs[s].pc = "done" => subs[s].sock = "closed" /\ subs[s].ctx = "closed"

\* C9: once the stop flag of a subscriber is down, its worker eventually
\* leaves the receive loop and run() returns.
C9_StopIsObserved ==
    \A s \in 1..MaxSubs :
        (s \in DOMAIN subs /\ ~subs[s].running) ~> (s \in DOMAIN subs /\ subs[s].pc = "done")

\* a stopped worker that was in its loop has left it and released its socket
C9_Witness ==
    \E s \in DOMAIN subs :
        ~subs[s].running /\ subs[s].pc = "done" /\ subs[s].sock = "closed"

\* C10: the documents a worker has handed off and the UI context has not yet
\* applied do not accumulate: at most one per worker is pending, the worker
\* polling again only after the consumer has taken it.
C10_BoundedHandOff == \A s \in DOMAIN subs : Cardinality(PendingDocs(s)) <= 1

\* C17: in every interleaving the scene model and the renderer state are
\* changed only by a step of the UI thread, here the slot on_msg taking a
\* document event from the head of the queue; a step of a worker thread
\* leaves them as they are and only moves its own subscriber and appends to
\* the event queue.
C17_OnlyTheUIThreadTouchesTheScene ==
    [][/\ ~(UNCHANGED <<modelVars, renVars>>) =>
              /\ events # <<>>
              /\ Head(events).sig = "msg"
              /\ Head(events).isdict
              /\ events' = Tail(events)
              /\ UNCHANGED <<sub, subs, received>>
              /\ points' = set_from_dict(TRUE, Head(events).data)[1]
       /\ \A s \in 1..MaxSubs :
              Worker(s) =>
                  /\ UNCHANGED <<modelVars, renVars, status, sub, last>>
                  /\ \A o \in DOMAIN subs : o # s => subs'[o] = subs[o]
                  /\ events' = events \/ (Len(events') = Len(events) + 1
                                          /\ SubSeq(events', 1, Len(events)) = events)]_vars

\* the slot has applied a document to the scene while a worker is in its loop
C17_Witness ==
    /\ last.op = "on_msg"
    /\ points # <<>>
    /\ point_points # <<>>
    /\ \E s \in DOMAIN subs : InLoop(s)

\* the queue after this step is the queue before it with its head taken
HeadTaken == events # <<>> /\ events' = Tail(events)

\* the queue after this step is the queue before it with one event added at
\* its end
OneAppended ==
    Len(events') = Len(events) + 1 /\ SubSeq(events', 1, Len(events)) = events

\* the only subscriber there is has just received the last payload that
\* arrives, the dict document d
LastReceivedBy1(d) ==
    /\ Len(subs) = 1
    /\ received = MaxMsgs
    /\ subs[1].pc = "parse"
    /\ subs[1].raw = DictPayload(d)

\* C25: the documents a subscriber forwards are applied in the order its
\* worker received them and none is applied twice: the hand-off queue only
\* ever loses its head and gains at its end; the worker forwards the payload
\* it has just received, once, at the end of the queue, and lets go of it;
\* the slot applies the document at the head of the queue and takes it off;
\* and the model changes in no other step.  And when the one subscriber
\* there is holds the last payload that arrives, a dict document, the queue
\* drains and from then on the model holds the points and segments of that
\* document.
C25_AppliedInOrderOnce ==
    /\ \A d \in {DocA, DocB} :
          [](LastReceivedBy1(d) =>
                <>[](/\ points = Get(d, "points", <<>>)
                     /\ segments = Get(d, "segments", <<>>)
                     /\ PendingDocs(1) = {}))
    /\ [][/\ events' = events \/ HeadTaken \/ OneAppended
          /\ \A s \in DOMAIN subs :
                (subs[s].pc = "parse" /\ subs'[s].pc # "parse") =>
                    /\ OneAppended
                    /\ subs[s].raw.json => events'[Len(events')] = MsgEvent(s, subs[s].raw)
                    /\ subs'[s].raw = NotJson
          /\ (OneAppended /\ events'[Len(events')].sig = "msg") =>
                \E s \in DOMAIN subs :
                    /\ subs[s].pc = "parse" /\ subs'[s].pc = "loop"
                    /\ events'[Len(events')] = MsgEvent(s, subs[s].raw)
          /\ (HeadTaken /\ Head(events).sig = "msg" /\ Head(events).isdict) =>
                /\ points' = Get(Head(events).data, "points", <<>>)
                /\ segments' = Get(Head(events).data, "segments", <<>>)
                /\ Len(point_points') = Len(points')
          /\ <<points', segments'>> # <<points, segments>> =>
                HeadTaken /\ Head(events).sig = "msg" /\ Head(events).isdict]_vars

\* one subscriber has forwarded two documents in the order it received them:
\* the first is applied, the second is the only event left in the queue
C25_Witness ==
    /\ Len(subs) = 1
    /\ received = MaxMsgs
    /\ DocApplied(DocA)
    /\ events = <<MsgEvent(1, DictPayload(DocB))>>

\* this step is worker s forwarding a document: a msg event of s is added at
\* the end of the queue
Forwards(s) ==
    /\ OneAppended
    /\ events'[Len(events')].sig = "msg"
    /\ events'[Len(events')].from = s

\* C26: once the stop flag of a subscriber is down it stays down, and its
\* worker forwards at most one further document, that of the loop iteration
\* in progress: the only forward it can still make is the one that ends the
\* iteration (parse to loop), and from the loop test, as from before the
\* loop and from the end of run(), it forwards nothing and never polls
\* again; so a subscriber whose flag was down before its loop started
\* forwards no document at all.
C26_AtMostOneAfterStop ==
    [][\A s \in DOMAIN subs :
          ~subs[s].running =>
              /\ ~subs'[s].running
              /\ subs[s].pc \in {"start", "loop", "done"} =>
                    /\ ~Forwards(s)
                    /\ subs'[s].pc \in {"start", "loop", "done"}
              /\ subs[s].pc = "poll" =>
                    /\ ~Forwards(s)
                    /\ subs'[s].pc \in {"poll", "parse", "loop", "done"}
              /\ subs[s].pc = "parse" =>
                    /\ subs'[s].pc \in {"parse", "loop"}
                    /\ Forwards(s) => subs'[s].pc = "loop"
              /\ subs[s].pc = "done" => subs'[s].pc = "done"]_vars

\* the flag of a subscriber is down and the iteration in progress holds a
\* document, which it will forward; and the flag of another is down before
\* its loop has started
C26_Witness ==
    /\ \E s \in DOMAIN subs :
          ~subs[s].running /\ subs[s].pc = "parse" /\ subs[s].raw = DictPayload(DocA)
    /\ \E s \in DOMAIN subs : ~subs[s].running /\ subs[s].pc = "start"

\* C27: once toggle_sub has stopped a subscriber (its flag is down and
\* 'Subscriber stopped' was reported), the slot applies no document of that
\* subscriber to the scene model any more.
C27_NoDocumentAfterStop ==
    [][(/\ HeadTaken
        /\ Head(events).sig = "msg"
        /\ Head(events).isdict
        /\ ~subs[Head(events).from].running) =>
            /\ status' # "Scene updated (dict)"
            /\ UNCHANGED <<points, segments>>]_vars

====
